---- MODULE Spec2Model ----
(***************************************************************************)
(* Model of pdsl_core/src/byte_utils.rs: two's-complement arithmetic on    *)
(* big-endian byte slices (negate_bytes, bytes_add_bytes), the exact-size  *)
(* slice views (slice4_as_array4, slice8_as_array8) and the primitive      *)
(* codec (bytes4_to_u32 / u32_to_bytes4, bytes8_to_u64 / u64_to_bytes8).   *)
(*                                                                         *)
(* The functions are pure; each is an operator computed the way the code   *)
(* computes it (loops are recursions over the position).  The state        *)
(* machines are callers that own the buffers and call the functions.       *)
(***************************************************************************)
EXTENDS Integers, Sequences, FiniteSets, TLC

\* Longest byte buffer a caller passes to the arithmetic functions.
MaxLen == 2

\* Most calls one caller makes.
MaxCalls == 2

\* Bits of a u8 (the `* 8` of N_BITS).
BYTE_BITS == 8

U8_MOD == 2 ^ BYTE_BITS

U8_MAX == U8_MOD - 1

\* Byte values the callers' input buffers are built from.
InputBytes == {0, 1, 42, 128, 255}

Min(m, n) == IF m <= n THEN m ELSE n

\* All sequences over S of length exactly n.
SeqsOfLen(S, n) == [1..n -> S]

\* All sequences over S of length at most n.
SeqsUpTo(S, n) == UNION {SeqsOfLen(S, k) : k \in 0..n}

----------------------------------------------------------------------------
(* u8 primitives                                                           *)

\* u8::overflowing_add: the wrapped sum and whether it wrapped.
overflowing_add(l, r) == [res |-> (l + r) % U8_MOD, ovfl |-> (l + r) >= U8_MOD]

\* `!byte` on a u8: every bit flipped.
not_u8(byte) == U8_MAX - byte

----------------------------------------------------------------------------
(* bytes_add_byte, invert_bytes, negate_bytes                              *)

RECURSIVE bytes_add_byte_loop(_, _, _)
\* The `for lhs in lhs.into_iter().rev()` loop; i is the 1-based position
\* visited next (0: the iterator is exhausted).
bytes_add_byte_loop(lhs, i, carry) ==
    IF i = 0
    THEN [bytes |-> lhs, ret |-> (carry # 0)]
    ELSE IF carry = 0
         THEN [bytes |-> lhs, ret |-> FALSE]
         ELSE LET r == overflowing_add(lhs[i], carry)
              IN bytes_add_byte_loop([lhs EXCEPT ![i] = r.res], i - 1,
                                     IF r.ovfl THEN 1 ELSE 0)

\* A mutant of bytes_add_byte: rhs is added to the last byte only, the
\* overflow is returned but not carried into the byte before it.
bytes_add_byte_no_propagation(lhs, rhs) ==
    IF ~(Len(lhs) >= 1)
    THEN [panic |-> "assert", bytes |-> lhs, ret |-> FALSE]
    ELSE LET r == overflowing_add(lhs[Len(lhs)], rhs)
         IN [panic |-> "none", bytes |-> [lhs EXCEPT ![Len(lhs)] = r.res],
             ret |-> r.ovfl]

bytes_add_byte(lhs, rhs) ==
    IF ~(Len(lhs) >= 1)
    THEN [panic |-> "assert", bytes |-> lhs, ret |-> FALSE]
    ELSE [panic |-> "none"] @@ bytes_add_byte_loop(lhs, Len(lhs), rhs)

\* A mutant of invert_bytes: the last byte is left as it is.
invert_bytes_skip_last(bytes) ==
    [i \in 1..Len(bytes) |-> IF i = Len(bytes) THEN bytes[i] ELSE not_u8(bytes[i])]

invert_bytes(bytes) == [i \in 1..Len(bytes) |-> not_u8(bytes[i])]

\* A mutant of negate_bytes: the increment is forgotten (one's complement).
negate_bytes_no_increment(bytes) ==
    [panic |-> IF Len(bytes) >= 1 THEN "none" ELSE "assert",
     bytes |-> invert_bytes(bytes)]

negate_bytes(bytes) ==
    LET r == bytes_add_byte(invert_bytes(bytes), 1)
    IN [panic |-> r.panic, bytes |-> r.bytes]

----------------------------------------------------------------------------
(* bytes_add_bytes                                                         *)

\* A mutant of add_step: the second addition forgets the carry-in.
add_step_drops_carry_in(l, r, carry) ==
    LET a1 == overflowing_add(l, carry)
        a2 == overflowing_add(l, r)
    IN [res |-> a2.res, carry_in |-> carry, carry1 |-> a1.ovfl,
        carry2 |-> a2.ovfl, carry |-> IF a1.ovfl \/ a2.ovfl THEN 1 ELSE 0]

\* A mutant of add_step: the intermediate sum is stored (res1 for res2).
add_step_stores_res1(l, r, carry) ==
    LET a1 == overflowing_add(l, carry)
        a2 == overflowing_add(a1.res, r)
    IN [res |-> a1.res, carry_in |-> carry, carry1 |-> a1.ovfl,
        carry2 |-> a2.ovfl, carry |-> IF a1.ovfl \/ a2.ovfl THEN 1 ELSE 0]

\* A mutant of add_step: only the second addition's overflow is carried on.
add_step_loses_carry1(l, r, carry) ==
    LET a1 == overflowing_add(l, carry)
        a2 == overflowing_add(a1.res, r)
    IN [res |-> a2.res, carry_in |-> carry, carry1 |-> a1.ovfl,
        carry2 |-> a2.ovfl, carry |-> IF a2.ovfl THEN 1 ELSE 0]

\* The loop body at one position: the byte stored, the two overflow flags
\* and the carry handed to the next position.
add_step(l, r, carry) ==
    LET a1 == overflowing_add(l, carry)
        a2 == overflowing_add(a1.res, r)
    IN [res |-> a2.res, carry_in |-> carry, carry1 |-> a1.ovfl,
        carry2 |-> a2.ovfl, carry |-> IF a1.ovfl \/ a2.ovfl THEN 1 ELSE 0]

RECURSIVE bytes_add_bytes_loop(_, _, _, _, _)
\* The `for (lhs, rhs) in lhs.into_iter().zip(rhs.into_iter()).rev()` loop;
\* i is the 1-based position visited next.  steps logs each iteration.  The
\* debug_assert! is taken as enabled.
bytes_add_bytes_loop(lhs, rhs, i, carry, steps) ==
    IF i = 0
    THEN [panic |-> "none", bytes |-> lhs, steps |-> steps]
    ELSE LET s == add_step(lhs[i], rhs[i], carry)
         IN IF s.carry1 /\ s.carry2
            THEN [panic |-> "debug_assert", bytes |-> lhs,
                  steps |-> Append(steps, s)]
            ELSE bytes_add_bytes_loop([lhs EXCEPT ![i] = s.res], rhs, i - 1,
                                      s.carry, Append(steps, s))

\* A mutant of bytes_add_bytes: the length assertion is missing, so the zip
\* pairs the first min(len) positions.
bytes_add_bytes_unchecked(lhs, rhs) ==
    bytes_add_bytes_loop(lhs, rhs, Min(Len(lhs), Len(rhs)), 0, <<>>)

bytes_add_bytes(lhs, rhs) ==
    IF Len(lhs) # Len(rhs)
    THEN [panic |-> "assert_eq", bytes |-> lhs, steps |-> <<>>]
    ELSE bytes_add_bytes_loop(lhs, rhs, Min(Len(lhs), Len(rhs)), 0, <<>>)

----------------------------------------------------------------------------
(* The caller of the arithmetic functions                                  *)

VARIABLES
    lhs_in,     \* the caller's first input slice (never written)
    rhs_in,     \* the caller's second input slice (never written)
    vec,        \* the caller's two owned buffers: copies of the inputs
    hist,       \* the calls made so far, in order
    panicked,   \* "none", or the assertion that ended the caller
    call        \* the last call: function, arguments as passed, step log

arith_vars == <<lhs_in, rhs_in, vec, hist, panicked, call>>

VARIABLES
    slice,      \* the slice a caller of the view functions holds
    view        \* the last view call: function and the Option it returned

view_vars == <<slice, view>>

VARIABLES
    datum,      \* the value a caller of the codec holds: its type and bits/bytes
    origin,     \* the datum the caller started from
    convs,      \* the conversions made so far, in order
    conv        \* the last conversion: function, argument, shifts, panic

codec_vars == <<datum, origin, convs, conv>>

vars == <<arith_vars, view_vars, codec_vars>>

Vecs == {"l", "r"}

Other(t) == IF t = "l" THEN "r" ELSE "l"

\* The input slice the buffer t was copied from / the one it was not.
OwnInput(t) == IF t = "l" THEN lhs_in ELSE rhs_in

OtherInput(t) == IF t = "l" THEN rhs_in ELSE lhs_in

NoCall == [fn |-> "none", dst |-> "l", old |-> <<>>, arg |-> <<>>, steps |-> <<>>]

\* The cases of test_bytes_add_bytes that carry: u32::MAX + 1 == 0 and
\* 0x12345678 + 0x9ABCDEF0 == 0xACF13568.
TestAdds ==
    {[lhs |-> <<255, 255, 255, 255>>, rhs |-> <<0, 0, 0, 1>>,
      expected |-> <<0, 0, 0, 0>>],
     [lhs |-> <<18, 52, 86, 120>>, rhs |-> <<154, 188, 222, 240>>,
      expected |-> <<172, 241, 53, 104>>]}

TestPairs == {<<c.lhs, c.rhs>> : c \in TestAdds}

ArithInit ==
    /\ \E p \in (SeqsUpTo(InputBytes, MaxLen) \X SeqsUpTo(InputBytes, MaxLen))
                    \cup TestPairs :
          /\ lhs_in = p[1]
          /\ rhs_in = p[2]
    /\ vec = [t \in Vecs |-> IF t = "l" THEN lhs_in ELSE rhs_in]
    /\ hist = <<>>
    /\ panicked = "none"
    /\ call = NoCall

CanCall == panicked = "none" /\ Len(hist) < MaxCalls

\* negate_bytes(&mut vec[t])
NegateBytes(t) ==
    /\ CanCall
    /\ LET r == negate_bytes(vec[t])
       IN /\ vec' = [vec EXCEPT ![t] = r.bytes]
          /\ panicked' = r.panic
          /\ call' = [fn |-> "negate_bytes", dst |-> t, old |-> vec[t],
                      arg |-> <<>>, steps |-> <<>>]
    /\ hist' = Append(hist, <<"negate_bytes", t>>)
    /\ UNCHANGED <<lhs_in, rhs_in, view_vars, codec_vars>>

\* The call bytes_add_bytes(&mut vec[t], rhs) with rhs named src.
DoAdd(t, rhs, src) ==
    /\ CanCall
    /\ LET r == bytes_add_bytes(vec[t], rhs)
       IN /\ vec' = [vec EXCEPT ![t] = r.bytes]
          /\ panicked' = r.panic
          /\ call' = [fn |-> "bytes_add_bytes", dst |-> t, old |-> vec[t],
                      arg |-> rhs, steps |-> r.steps]
    /\ hist' = Append(hist, <<"bytes_add_bytes", t, src>>)
    /\ UNCHANGED <<lhs_in, rhs_in, view_vars, codec_vars>>

\* bytes_add_bytes(&mut vec[t], other input slice): bytes_add_bytes_copy
AddSlice(t) == DoAdd(t, OtherInput(t), "slice")

\* bytes_add_bytes(&mut vec[t], &vec[other])
AddVec(t) == DoAdd(t, vec[Other(t)], "vec")

\* No arithmetic caller: the state of a run that only uses the other parts.
ArithIdle ==
    /\ lhs_in = <<>>
    /\ rhs_in = <<>>
    /\ vec = [t \in Vecs |-> <<>>]
    /\ hist = <<>>
    /\ panicked = "none"
    /\ call = NoCall

----------------------------------------------------------------------------
(* impl_slice_as_array!: slice4_as_array4, slice8_as_array8                *)

\* Longest slice a caller passes to the view functions.
MaxSliceLen == 9

\* Element values of the slices (T is generic).
ViewElems == {1, 2}

\* A mutant of slice_as_array: only too-short slices are refused.
slice_as_array_accepts_longer(s, n) ==
    IF Len(s) < n
    THEN [some |-> FALSE, arr |-> <<>>]
    ELSE [some |-> TRUE, arr |-> [i \in 1..n |-> s[i]]]

\* The macro body for size n.  The transmute makes a reference to the n
\* elements stored at slice.as_ptr(); the guard has made len = n, so these
\* are the slice's own elements.
slice_as_array(s, n) ==
    IF Len(s) # n
    THEN [some |-> FALSE, arr |-> <<>>]
    ELSE [some |-> TRUE, arr |-> [i \in 1..n |-> s[i]]]

ARRAY4_LEN == 4

ARRAY8_LEN == 8

slice4_as_array4(s) == slice_as_array(s, ARRAY4_LEN)

slice8_as_array8(s) == slice_as_array(s, ARRAY8_LEN)

NoView == [fn |-> "none", n |-> 0, arg |-> <<>>, res |-> [some |-> FALSE, arr |-> <<>>]]

ViewInit ==
    /\ slice \in SeqsUpTo(ViewElems, MaxSliceLen)
    /\ view = NoView

Slice4AsArray4 ==
    /\ view' = [fn |-> "slice4_as_array4", n |-> ARRAY4_LEN, arg |-> slice,
                res |-> slice4_as_array4(slice)]
    /\ UNCHANGED <<slice, arith_vars, codec_vars>>

Slice8AsArray8 ==
    /\ view' = [fn |-> "slice8_as_array8", n |-> ARRAY8_LEN, arg |-> slice,
                res |-> slice8_as_array8(slice)]
    /\ UNCHANGED <<slice, arith_vars, codec_vars>>

ViewIdle ==
    /\ slice = <<>>
    /\ view = NoView

----------------------------------------------------------------------------
(* primitives_impl!: bytes4_to_u32, u32_to_bytes4, bytes8_to_u64,          *)
(* u64_to_bytes8                                                           *)
(*                                                                         *)
(* A primitive of N_BITS bits is the function from bit position            *)
(* 0..N_BITS-1 (position k weighs 2^k) to its bit; a u8 is a number.       *)

\* Most conversions one caller makes.
MaxConv == 2

\* size_of::<u32>() and size_of::<u64>()
SIZE_OF_U32 == 4

SIZE_OF_U64 == 8

\* Byte values the codec callers' inputs are built from.
CodecBytes == {0, 18, 255}

\* Bit k of the u8 b.
BitOf(b, k) == (b \div (2 ^ k)) % 2

RECURSIVE BitsValue(_, _, _)
\* The number the n bits of v from position lo upward spell.
BitsValue(v, lo, n) ==
    IF n = 0 THEN 0 ELSE v[lo] + 2 * BitsValue(v, lo + 1, n - 1)

\* `b as $prim`: zero extension of a u8 to n_bits bits.
u8_as_prim(b, n_bits) ==
    [k \in 0..(n_bits - 1) |-> IF k < BYTE_BITS THEN BitOf(b, k) ELSE 0]

\* `v as u8`: truncation to the low 8 bits.
prim_as_u8(v) == BitsValue(v, 0, BYTE_BITS)

\* `v << s` and `v >> s` for 0 <= s < n_bits.
shl(v, s, n_bits) == [k \in 0..(n_bits - 1) |-> IF k >= s THEN v[k - s] ELSE 0]

shr(v, s, n_bits) ==
    [k \in 0..(n_bits - 1) |-> IF k + s < n_bits THEN v[k + s] ELSE 0]

bit_or(v, w) == [k \in DOMAIN v |-> IF v[k] = 1 \/ w[k] = 1 THEN 1 ELSE 0]

\* `v & 0xFF`
and_0xFF(v) == [k \in DOMAIN v |-> IF k < BYTE_BITS THEN v[k] ELSE 0]

\* A mutant of shift_amount: the bytes are taken in little-endian order.
shift_amount_little_endian(i, n_bits) == i * BYTE_BITS

\* `N_BITS - ((i + 1) * 8)` for the 0-based byte index i.
shift_amount(i, n_bits) == n_bits - ((i + 1) * BYTE_BITS)

\* usize subtraction underflow and a shift by N_BITS or more both panic
\* (overflow checks on).
ShiftOk(s, n_bits) == s >= 0 /\ s < n_bits

RECURSIVE bytes_to_prim_loop(_, _, _, _, _)
\* `for i in 0..N_BYTES { res |= (bytes[i] as $prim) << (...) }`; bytes is
\* 1-based here.  shifts logs the shift amounts used.
bytes_to_prim_loop(bytes, i, res, shifts, n_bytes) ==
    IF i = n_bytes
    THEN [panic |-> "none", res |-> res, shifts |-> shifts]
    ELSE LET n_bits == n_bytes * BYTE_BITS
             s == shift_amount(i, n_bits)
         IN IF ~ShiftOk(s, n_bits)
            THEN [panic |-> "overflow", res |-> res, shifts |-> shifts \cup {s}]
            ELSE bytes_to_prim_loop(
                     bytes, i + 1,
                     bit_or(res, shl(u8_as_prim(bytes[i + 1], n_bits), s, n_bits)),
                     shifts \cup {s}, n_bytes)

\* $bytes_to_prim for a primitive of n_bytes bytes; `let mut res = 0`.
bytes_to_prim(bytes, n_bytes) ==
    bytes_to_prim_loop(bytes, 0, [k \in 0..(n_bytes * BYTE_BITS - 1) |-> 0],
                       {}, n_bytes)

RECURSIVE prim_to_bytes_loop(_, _, _, _, _)
\* `for i in 0..N_BYTES { buf[i] = ((val >> (...)) & 0xFF) as u8 }`
prim_to_bytes_loop(val, i, buf, shifts, n_bytes) ==
    IF i = n_bytes
    THEN [panic |-> "none", res |-> buf, shifts |-> shifts]
    ELSE LET n_bits == n_bytes * BYTE_BITS
             s == shift_amount(i, n_bits)
         IN IF ~ShiftOk(s, n_bits)
            THEN [panic |-> "overflow", res |-> buf, shifts |-> shifts \cup {s}]
            ELSE prim_to_bytes_loop(
                     val, i + 1,
                     [buf EXCEPT ![i + 1] = prim_as_u8(and_0xFF(shr(val, s, n_bits)))],
                     shifts \cup {s}, n_bytes)

\* A mutant of prim_to_bytes: the bytes are written in little-endian order.
prim_to_bytes_little_endian(val, n_bytes) ==
    [panic |-> "none",
     res |-> [i \in 1..n_bytes |-> BitsValue(val, (i - 1) * BYTE_BITS, BYTE_BITS)],
     shifts |-> {i * BYTE_BITS : i \in 0..(n_bytes - 1)}]

\* $prim_to_bytes for a primitive of n_bytes bytes; `let mut buf = [0x0; N_BYTES]`.
prim_to_bytes(val, n_bytes) ==
    prim_to_bytes_loop(val, 0, [i \in 1..n_bytes |-> 0], {}, n_bytes)

bytes4_to_u32(bytes) == bytes_to_prim(bytes, SIZE_OF_U32)

u32_to_bytes4(val) == prim_to_bytes(val, SIZE_OF_U32)

bytes8_to_u64(bytes) == bytes_to_prim(bytes, SIZE_OF_U64)

u64_to_bytes8(val) == prim_to_bytes(val, SIZE_OF_U64)

\* The primitive written as the literal whose base-256 digits, most
\* significant first, are ds (0x12345678 is <<18, 52, 86, 120>>).
Literal(ds) ==
    [k \in 0..(Len(ds) * BYTE_BITS - 1) |->
        BitOf(ds[Len(ds) - (k \div BYTE_BITS)], k % BYTE_BITS)]

\* The values of the tests' test_for calls: 0x12_34_56_78 and
\* 0x12_34_56_78_9A_BC_DE_F0.
TestDigits == {<<18, 52, 86, 120>>, <<18, 52, 86, 120, 154, 188, 222, 240>>}

CodecSizes == {SIZE_OF_U32, SIZE_OF_U64}

CodecDigits ==
    TestDigits \cup UNION {SeqsOfLen(CodecBytes, n) : n \in CodecSizes}

NoConv == [fn |-> "none", n_bytes |-> 0, arg |-> <<>>, shifts |-> {}, panic |-> "none"]

\* The caller starts with a primitive or with a byte array of its size.
CodecInit ==
    /\ \E ds \in CodecDigits :
          \/ datum = [kind |-> "prim", n_bytes |-> Len(ds), v |-> Literal(ds)]
          \/ datum = [kind |-> "bytes", n_bytes |-> Len(ds), v |-> ds]
    /\ origin = datum
    /\ convs = <<>>
    /\ conv = NoConv

CanConvert(kind, n_bytes) ==
    /\ conv.panic = "none"
    /\ Len(convs) < MaxConv
    /\ datum.kind = kind
    /\ datum.n_bytes = n_bytes

\* The caller replaces its datum by r, the result of calling fn on it.
Convert(fn, kind, r) ==
    /\ datum' = [kind |-> kind, n_bytes |-> datum.n_bytes, v |-> r.res]
    /\ conv' = [fn |-> fn, n_bytes |-> datum.n_bytes, arg |-> datum.v,
                shifts |-> r.shifts, panic |-> r.panic]
    /\ convs' = Append(convs, fn)
    /\ UNCHANGED <<origin, arith_vars, view_vars>>

Bytes4ToU32 ==
    /\ CanConvert("bytes", SIZE_OF_U32)
    /\ Convert("bytes_to_prim", "prim", bytes4_to_u32(datum.v))

U32ToBytes4 ==
    /\ CanConvert("prim", SIZE_OF_U32)
    /\ Convert("prim_to_bytes", "bytes", u32_to_bytes4(datum.v))

Bytes8ToU64 ==
    /\ CanConvert("bytes", SIZE_OF_U64)
    /\ Convert("bytes_to_prim", "prim", bytes8_to_u64(datum.v))

U64ToBytes8 ==
    /\ CanConvert("prim", SIZE_OF_U64)
    /\ Convert("prim_to_bytes", "bytes", u64_to_bytes8(datum.v))

CodecIdle ==
    /\ datum = [kind |-> "none", n_bytes |-> 0, v |-> <<>>]
    /\ origin = datum
    /\ convs = <<>>
    /\ conv = NoConv

----------------------------------------------------------------------------
(* The specifications: one caller per part of the library                  *)

Init == ArithInit /\ ViewIdle /\ CodecIdle

Next ==
    \/ \E t \in Vecs : NegateBytes(t)
    \/ \E t \in Vecs : AddSlice(t)
    \/ \E t \in Vecs : AddVec(t)

Spec == Init /\ [][Next]_vars

InitView == ArithIdle /\ ViewInit /\ CodecIdle

NextView ==
    \/ Slice4AsArray4
    \/ Slice8AsArray8

SpecView == InitView /\ [][NextView]_vars

InitCodec == ArithIdle /\ ViewIdle /\ CodecInit

NextCodec ==
    \/ Bytes4ToU32
    \/ U32ToBytes4
    \/ Bytes8ToU64
    \/ U64ToBytes8

SpecCodec == InitCodec /\ [][NextCodec]_vars

----------------------------------------------------------------------------
(* Properties of the arithmetic (checked under Spec)                       *)

RECURSIVE Value(_)
\* The unsigned big-endian integer a byte buffer spells.
Value(b) ==
    IF Len(b) = 0
    THEN 0
    ELSE Value(SubSeq(b, 1, Len(b) - 1)) * U8_MOD + b[Len(b)]

\* 2^(8*n)
Modulus(n) == 2 ^ (BYTE_BITS * n)

\* Whether sums of two n-byte values can be computed here (TLC's
\* integers are 32-bit signed).
ValueFits(n) == BYTE_BITS * n + 1 < 31

Zeros(n) == [i \in 1..n |-> 0]

\* The buffer the last call wrote, as it is now.
CallNew == vec[call.dst]

AddCalled == call.fn = "bytes_add_bytes"

NegateCalled == call.fn = "negate_bytes"

AddPreconditionMet == AddCalled /\ Len(call.old) = Len(call.arg)

\* C1: after bytes_add_bytes on buffers of the same length n, lhs read as an
\* unsigned big-endian integer is (value(old lhs) + value(rhs)) mod 2^(8n);
\* the carry out of the first byte is dropped and no error is raised.  The
\* 4-byte operands of the tests give the bytes the tests expect.
C1_AddIsSumModulo ==
    AddPreconditionMet =>
        LET n == Len(call.old)
        IN /\ panicked = "none"
           /\ Len(CallNew) = n
           /\ ValueFits(n) =>
                 Value(CallNew) = (Value(call.old) + Value(call.arg)) % Modulus(n)
           /\ \A c \in TestAdds :
                 {call.old, call.arg} = {c.lhs, c.rhs} => CallNew = c.expected

\* C1 witness: a 2-byte addition whose last byte carries into the first and
\* whose first byte carries out of the buffer.
C1_Witness ==
    /\ AddPreconditionMet
    /\ panicked = "none"
    /\ Len(call.old) = 2
    /\ call.steps[1].carry = 1
    /\ call.steps[2].carry_in = 1
    /\ call.steps[2].carry = 1
    /\ Value(call.old) + Value(call.arg) >= Modulus(2)
    /\ Value(CallNew) = Value(call.old) + Value(call.arg) - Modulus(2)

\* C2: after negate_bytes on a non-empty buffer of length n, the buffer read
\* as an unsigned big-endian integer is (2^(8n) - value(old)) mod 2^(8n); an
\* all-zero buffer stays all-zero; [0x00, 0x2A] becomes [0xFF, 0xD6].
C2_NegateIsTwosComplement ==
    NegateCalled /\ Len(call.old) >= 1 =>
        LET n == Len(call.old)
        IN /\ panicked = "none"
           /\ Len(CallNew) = n
           /\ ValueFits(n) =>
                 Value(CallNew) = (Modulus(n) - Value(call.old)) % Modulus(n)
           /\ call.old = Zeros(n) => CallNew = Zeros(n)
           /\ call.old = <<0, 42>> => CallNew = <<255, 214>>

\* C2 witness: negate_bytes has run on an all-zero buffer of two bytes (the
\* increment ripples through every byte and out of the buffer).
C2_Witness ==
    /\ NegateCalled
    /\ call.old = Zeros(2)
    /\ CallNew = Zeros(2)
    /\ panicked = "none"

\* The caller has made exactly the calls h, and none failed.
Ran(h) == hist = h /\ panicked = "none"

\* C3: negate_bytes applied twice in succession to a non-empty buffer leaves
\* it byte-for-byte as it was.
C3_NegateIsInvolution ==
    \A t \in Vecs :
        (/\ hist = <<(<<"negate_bytes", t>>), (<<"negate_bytes", t>>)>>
         /\ Len(OwnInput(t)) >= 1)
            => (panicked = "none" /\ vec[t] = OwnInput(t))

\* C3 witness: a buffer that is not its own negation has been negated twice.
C3_Witness ==
    /\ Ran(<<(<<"negate_bytes", "l">>), (<<"negate_bytes", "l">>)>>)
    /\ lhs_in = <<0, 42>>
    /\ call.old = <<255, 214>>
    /\ vec["l"] = <<0, 42>>

\* The two calls of the tests' test_for: lhs_vec += rhs and rhs_vec += lhs.
BothOrders ==
    {<<(<<"bytes_add_bytes", t, "slice">>),
       (<<"bytes_add_bytes", Other(t), "slice">>)>> : t \in Vecs}

\* C4: for equal-length a and b, a copy of a after adding b holds the same
\* bytes as a copy of b after adding a.
C4_AddCommutes ==
    (hist \in BothOrders /\ Len(lhs_in) = Len(rhs_in)) =>
        (panicked = "none" /\ vec["l"] = vec["r"])

\* C4 witness: both orders have been added for two different operands whose
\* sum carries.
C4_Witness ==
    /\ hist \in BothOrders
    /\ panicked = "none"
    /\ lhs_in = <<1, 255>>
    /\ rhs_in = <<128, 42>>
    /\ vec["l"] = <<130, 41>>
    /\ vec["r"] = <<130, 41>>

\* C5: for a non-empty a, adding the negated copy of a to a copy of a leaves
\* an all-zero buffer of a's length.
C5_NegateIsAdditiveInverse ==
    (/\ hist = <<(<<"negate_bytes", "r">>), (<<"bytes_add_bytes", "l", "vec">>)>>
     /\ lhs_in = rhs_in
     /\ Len(lhs_in) >= 1)
        => (panicked = "none" /\ vec["l"] = Zeros(Len(lhs_in)))

\* C5 witness: a non-zero two-byte a has been added to its negation.
C5_Witness ==
    /\ Ran(<<(<<"negate_bytes", "r">>), (<<"bytes_add_bytes", "l", "vec">>)>>)
    /\ lhs_in = <<0, 42>>
    /\ rhs_in = <<0, 42>>
    /\ vec["r"] = <<255, 214>>
    /\ vec["l"] = <<0, 0>>

\* C9: bytes_add_bytes on buffers of different lengths fails its assertion
\* with lhs untouched; negate_bytes on an empty buffer fails its assertion;
\* a call whose precondition is met does not fail.
C9_PreconditionsAreFatal ==
    /\ AddCalled /\ Len(call.old) # Len(call.arg) =>
           panicked = "assert_eq" /\ CallNew = call.old
    /\ AddCalled /\ Len(call.old) = Len(call.arg) => panicked = "none"
    /\ NegateCalled /\ Len(call.old) = 0 => panicked = "assert"
    /\ NegateCalled /\ Len(call.old) >= 1 => panicked = "none"

\* C9 witness: bytes_add_bytes was called with a longer lhs whose last byte
\* plus rhs's last byte would have changed it, and it failed leaving lhs.
C9_Witness ==
    /\ AddCalled
    /\ call.old = <<1, 255>>
    /\ call.arg = <<1>>
    /\ panicked = "assert_eq"
    /\ CallNew = <<1, 255>>

StepOk(s) ==
    /\ s.carry_in \in {0, 1}
    /\ ~(s.carry1 /\ s.carry2)
    /\ s.carry \in {0, 1}
    /\ s.carry = 1 <=> (s.carry1 \/ s.carry2)

\* C10: in bytes_add_bytes on equal-length inputs every position is visited,
\* its carry-in is 0 or 1, at most one of its two additions overflows (the
\* debug assertion holds) and its carry-out is 0 or 1 and is the next
\* position's carry-in.
C10_CarryIsOneBit ==
    AddPreconditionMet =>
        /\ panicked # "debug_assert"
        /\ Len(call.steps) = Len(call.old)
        /\ \A j \in 1..Len(call.steps) :
              /\ StepOk(call.steps[j])
              /\ call.steps[j].carry_in = IF j = 1 THEN 0 ELSE call.steps[j - 1].carry

\* C10 witness: one run in which the first addition overflows at one
\* position (carry-in 1 into 0xFF) and the second addition at another.
C10_Witness ==
    /\ AddPreconditionMet
    /\ Len(call.steps) = 2
    /\ call.steps[1].carry2 /\ ~call.steps[1].carry1
    /\ call.steps[2].carry1 /\ ~call.steps[2].carry2
    /\ call.steps[2].carry_in = 1

----------------------------------------------------------------------------
(* Properties of the slice views (checked under SpecView)                  *)

ViewCalled == view.fn # "none"

\* C8: sliceN_as_arrayN(s), for N = 4 and N = 8, returns Some exactly when
\* len(s) = N; the view then has the N elements of s in order; for every
\* other length it returns None; s is as it was passed.
C8_ViewIffExactLength ==
    ViewCalled =>
        /\ view.n = (IF view.fn = "slice4_as_array4" THEN 4 ELSE 8)
        /\ view.res.some <=> (Len(view.arg) = view.n)
        /\ view.res.some =>
              /\ Len(view.res.arr) = view.n
              /\ \A i \in 1..view.n : view.res.arr[i] = view.arg[i]
        /\ ~view.res.some => view.res.arr = <<>>
        /\ slice = view.arg

\* C8 witness: slice8_as_array8 has refused a slice of 9 elements.
C8_Witness ==
    /\ view.fn = "slice8_as_array8"
    /\ Len(view.arg) = 9
    /\ ~view.res.some

----------------------------------------------------------------------------
(* Properties of the codec (checked under SpecCodec)                       *)

\* The bits of a primitive from position 31 upward are zero: its value is a
\* number that fits TLC's 32-bit signed integers.
IntFits(v) == \A k \in DOMAIN v : k >= 31 => v[k] = 0

\* The value of a primitive v with IntFits(v).
IntOf(v) == BitsValue(v, 0, Min(31, Cardinality(DOMAIN v)))

\* floor(x / 2^s) mod 256 for a value x below 2^31.
ByteOfInt(x, s) == IF s >= 31 THEN 0 ELSE (x \div (2 ^ s)) % U8_MOD

RECURSIVE WeightedSum(_, _, _)
\* The sum over the 0-based indexes i..n-1 of b[i] * 2^(w - 8*(i+1)), for
\* byte arrays whose sum is below 2^31.
WeightedSum(b, i, w) ==
    IF i = Len(b)
    THEN 0
    ELSE (IF b[i + 1] = 0 THEN 0 ELSE b[i + 1] * 2 ^ (w - BYTE_BITS * (i + 1)))
         + WeightedSum(b, i + 1, w)

\* C6: for u32/4 bytes and u64/8 bytes, converting a primitive to bytes and
\* back gives the primitive, and converting a byte array to a primitive and
\* back gives the array; no conversion fails.
C6_CodecRoundTrips ==
    /\ conv.panic = "none"
    /\ Len(convs) > 0 /\ Len(convs) % 2 = 0 => datum = origin
    /\ Len(convs) % 2 = 1 => datum.kind # origin.kind /\ datum.n_bytes = origin.n_bytes

\* C6 witness: a u64 with eight different bytes went to bytes and back, and
\* so did its byte array.
C6_Witness ==
    /\ convs = <<"prim_to_bytes", "bytes_to_prim">>
    /\ origin = [kind |-> "prim", n_bytes |-> 8,
                 v |-> Literal(<<18, 52, 86, 120, 154, 188, 222, 240>>)]
    /\ conv.arg = <<18, 52, 86, 120, 154, 188, 222, 240>>
    /\ datum = origin

\* C7: the encoding is big-endian and total.  For a primitive x of W bits
\* and i in 0..W/8-1, byte i of prim_to_bytes(x) is floor(x / 2^(W-8(i+1)))
\* mod 256, that is bits W-8(i+1) .. W-8i-1 of x; bytes_to_prim(b) is the sum
\* of b[i] * 2^(W-8(i+1)), that is byte i's bits at those positions; the
\* shift amounts used are the multiples of 8 in 0..W-8; no call fails.
C7_CodecIsBigEndian ==
    conv.fn # "none" =>
        LET n == conv.n_bytes
            w == BYTE_BITS * n
        IN /\ conv.panic = "none"
           /\ conv.shifts = {w - BYTE_BITS * (i + 1) : i \in 0..(n - 1)}
           /\ \A sh \in conv.shifts : 0 <= sh /\ sh <= w - BYTE_BITS
           /\ conv.fn = "prim_to_bytes" =>
                 /\ Len(datum.v) = n
                 /\ \A i \in 0..(n - 1) :
                       /\ datum.v[i + 1] =
                              BitsValue(conv.arg, w - BYTE_BITS * (i + 1), BYTE_BITS)
                       /\ IntFits(conv.arg) =>
                              datum.v[i + 1] =
                                  ByteOfInt(IntOf(conv.arg), w - BYTE_BITS * (i + 1))
                 /\ \A ds \in TestDigits : conv.arg = Literal(ds) => datum.v = ds
           /\ conv.fn = "bytes_to_prim" =>
                 /\ DOMAIN datum.v = 0..(w - 1)
                 /\ \A i \in 0..(n - 1) : \A k \in 0..(BYTE_BITS - 1) :
                       datum.v[w - BYTE_BITS * (i + 1) + k] = BitOf(conv.arg[i + 1], k)
                 /\ IntFits(datum.v) => IntOf(datum.v) = WeightedSum(conv.arg, 0, w)
                 /\ \A ds \in TestDigits : conv.arg = ds => datum.v = Literal(ds)

\* C7 witness: u32_to_bytes4(0x12345678) has returned [0x12, 0x34, 0x56, 0x78],
\* and 0x12345678 = 305419896 is the number the model's bits spell.
C7_Witness ==
    /\ conv.fn = "prim_to_bytes"
    /\ conv.n_bytes = 4
    /\ IntFits(conv.arg)
    /\ IntOf(conv.arg) = 305419896
    /\ datum.v = <<18, 52, 86, 120>>

====
